---- MODULE Spec2Model ----
(***************************************************************************)
(* TrustVault: an encrypted reputation ledger.  The contract keeps, per    *)
(* rated user, an encrypted running total and count (FHE handles), a       *)
(* public count and a table of authorized viewers.  The FHE library is     *)
(* modelled by a transparent handle store: every handle has a cleartext    *)
(* and the set of addresses allowed on it.                                 *)
(***************************************************************************)
EXTENDS Integers, Sequences, FiniteSets, TLC

VARIABLES totalRatings, ratings, userRatings, userScores, fhe, events,
          block, lastTx, submitted, ui

vars == <<totalRatings, ratings, userRatings, userScores, fhe, events,
          block, lastTx, submitted, ui>>

\* the contract's storage, the FHE library's handle store and the event log
chain == <<totalRatings, ratings, userRatings, userScores, fhe, events>>

----------------------------------------------------------------------------
\* Bounds of the model

\* successful transactions (each emits exactly one event)
MaxTx == 4
\* successful submitRating calls among them
MaxRatings == 3
\* blocks mined after the deployment block
MaxBlocks == 1
\* successful transactions of the ledger in which blocks are mined
MaxTimedTx == 3
\* successful transactions of the ledger driven through the frontend and the
\* command line
MaxUiTx == 1

----------------------------------------------------------------------------
\* Identities and values

ZeroAddress == "0x0"
This == "TrustVault"
Users == {"alice", "bob", "charlie"}
Addresses == Users \cup {ZeroAddress}

\* the accounts that send transactions; charlie is only rated or authorized
Senders == {"alice", "bob"}

\* the plaintext each sender encrypts; the contract cannot inspect it
RatingOf == [alice |-> 5, bob |-> 3]

\* euint32 arithmetic wraps at 2^32, which is beyond TLC's integers; with the
\* plaintexts of RatingOf a wrap needs more than 10^8 ratings of one
\* user, so the sums of FHE_add below are the euint32 sums

\* ethers.ZeroHash: the value of an uninitialised euint32
ZeroHandle == 0

\* the FHE library calls of the contract, any of which may revert
FheCalls == {"fromExternal", "allowThis", "allow", "asEuint32", "add"}

----------------------------------------------------------------------------
\* The FHE library: a store of handles 1..Len(store)

\* a new handle holding v, nobody allowed on it yet
NewHandle(store, v) == Append(store, [cleartext |-> v, allowed |-> {}])

\* the handle the last NewHandle produced
LastHandle(store) == Len(store)

\* FHE.fromExternal(encryptedScore, inputProof)
FHE_fromExternal(store, plaintext) == NewHandle(store, plaintext)

\* FHE.asEuint32(value)
FHE_asEuint32(store, value) == NewHandle(store, value)

\* FHE.add(a, b): a fresh handle, never in place
FHE_add(store, a, b) ==
    NewHandle(store, store[a].cleartext + store[b].cleartext)

\* FHE.allow(handle, account)
FHE_allow(store, h, account) ==
    [store EXCEPT ![h].allowed = @ \cup {account}]

\* FHE.allowThis(handle)
FHE_allowThis(store, h) == FHE_allow(store, h, This)

\* the stand-in decryption: the cleartext behind a handle (an uninitialised
\* handle reads as 0)
Decrypt(h) == IF h = ZeroHandle THEN 0 ELSE fhe[h].cleartext

\* who holds decrypt permission on a handle
Allowed(h) == IF h = ZeroHandle THEN {} ELSE fhe[h].allowed

----------------------------------------------------------------------------
\* Contract storage

EmptyUserScore ==
    [encryptedTotalScore |-> ZeroHandle,
     encryptedCount      |-> ZeroHandle,
     publicCount         |-> 0,
     authorizedViewers   |-> [v \in Addresses |-> FALSE]]

\* mapping(uint256 => Rating): every slot reads as the zero record until written
RatingIds == 0..MaxRatings

EmptyRating == [rater |-> ZeroAddress, encryptedScore |-> ZeroHandle, timestamp |-> 0]

\* the outcome of the last transaction: the function called and "ok" or the
\* revert message
NoTx == [fn |-> "constructor", status |-> "ok"]

\* what the last request made through the form, the hook or the command
\* line has done: the score it was asked to submit, the form's fields when
\* submitted and afterwards, the toast of the form, the toasts of the hook,
\* and whether the encryption was called, the transaction was attempted and
\* was confirmed
NoForm == [ratedUser |-> "", score |-> 5]

NoRequest ==
    [surface |-> "none", asked |-> [isNumber |-> TRUE, tenths |-> 50],
     input |-> NoForm, form |-> NoForm, formToast |-> "", toasts |-> <<>>,
     encrypted |-> FALSE, sent |-> FALSE, confirmed |-> FALSE]

Init ==
    /\ totalRatings = 0
    /\ ratings = [id \in RatingIds |-> EmptyRating]
    /\ userRatings = [u \in Addresses |-> <<>>]
    /\ userScores = [u \in Addresses |-> EmptyUserScore]
    /\ fhe = <<>>
    /\ events = <<>>
    /\ block = [number |-> 0, timestamp |-> 1]
    /\ lastTx = NoTx
    /\ submitted = <<>>
    /\ ui = NoRequest

\* a transaction that reverts: nothing but the receipt changes
Revert(fn, message) ==
    /\ lastTx' = [fn |-> fn, status |-> message]
    /\ UNCHANGED <<chain, block, submitted>>

Receipt(fn) == [fn |-> fn, status |-> "ok"]

\* every successful transaction emits one event, so the log counts them
TxBudget == Len(events) < MaxTx

\* the logs of the two viewer events, each with the number of the block that
\* holds it
ViewerAuthorized(user, viewer) ==
    [name |-> "ViewerAuthorized", user |-> user, viewer |-> viewer,
     blockNumber |-> block.number]

ViewerRevoked(user, viewer) ==
    [name |-> "ViewerRevoked", user |-> user, viewer |-> viewer,
     blockNumber |-> block.number]

----------------------------------------------------------------------------
\* submitRating(ratedUser, encryptedScore, inputProof), msg.sender = sender,
\* the external ciphertext encrypting `plaintext`

\* Fold without the add branch: every rating seeds the aggregate anew
Fold_AlwaysSeeds(store, score, encryptedEuint32) ==
    LET s1 == FHE_asEuint32(store, 1)
    IN  [store |-> s1, total |-> encryptedEuint32, count |-> LastHandle(s1)]

\* Fold that adds in place: the subject keeps its handles
Fold_InPlace(store, score, encryptedEuint32) ==
    IF score.publicCount = 0
    THEN LET s1 == FHE_asEuint32(store, 1)
         IN  [store |-> s1, total |-> encryptedEuint32, count |-> LastHandle(s1)]
    ELSE LET s1 == [store EXCEPT ![score.encryptedTotalScore].cleartext =
                             @ + store[encryptedEuint32].cleartext]
             s2 == [s1 EXCEPT ![score.encryptedCount].cleartext = @ + 1]
         IN  [store |-> s2, total |-> score.encryptedTotalScore,
              count |-> score.encryptedCount]

\* the handle store after the fold, with the new total and count handles
Fold(store, score, encryptedEuint32) ==
    IF score.publicCount = 0
    THEN LET s1 == FHE_asEuint32(store, 1)
         IN  [store |-> s1, total |-> encryptedEuint32, count |-> LastHandle(s1)]
    ELSE LET s1 == FHE_add(store, score.encryptedTotalScore, encryptedEuint32)
             s2 == FHE_asEuint32(s1, 1)
             s3 == FHE_add(s2, score.encryptedCount, LastHandle(s2))
         IN  [store |-> s3, total |-> LastHandle(s1), count |-> LastHandle(s3)]

\* Folded with publicCount set on the first rating only
Folded_CountOnce(score, f) ==
    [score EXCEPT !.encryptedTotalScore = f.total,
                  !.encryptedCount = f.count,
                  !.publicCount = IF @ = 0 THEN 1 ELSE @]

\* Folded without publicCount++
Folded_NoIncrement(score, f) ==
    [score EXCEPT !.encryptedTotalScore = f.total,
                  !.encryptedCount = f.count]

\* the UserScore record after the fold: new handles, publicCount++
Folded(score, f) ==
    [score EXCEPT !.encryptedTotalScore = f.total,
                  !.encryptedCount = f.count,
                  !.publicCount = @ + 1]

\* Regranted without FHE.allowThis on the aggregate handles
Regranted_SubjectOnly(store, total, count, ratedUser) ==
    FHE_allow(FHE_allow(store, total, ratedUser), count, ratedUser)

\* the handle store after the grants on the aggregate handles: allowThis on
\* both, then allow for the rated user on both
Regranted(store, total, count, ratedUser) ==
    LET s3 == FHE_allowThis(FHE_allowThis(store, total), count)
    IN  FHE_allow(FHE_allow(s3, total, ratedUser), count, ratedUser)

\* push at the front of the list
Pushed_AtFront(list, ratingId) == <<ratingId>> \o list

\* userRatings[ratedUser].push(ratingId)
Pushed(list, ratingId) == Append(list, ratingId)

\* the part of the state the body of submitRating computes on
Storage ==
    [totalRatings |-> totalRatings, userRatings |-> userRatings,
     userScores |-> userScores, fhe |-> fhe]

\* submitRating that folds into the sender's UserScore
submitRatingBody_ScoresSender(st, sender, ratedUser, plaintext) ==
    LET ratingId == st.totalRatings
        s1 == FHE_fromExternal(st.fhe, plaintext)
        encryptedEuint32 == LastHandle(s1)
        s2 == FHE_allow(FHE_allowThis(s1, encryptedEuint32), encryptedEuint32, sender)
        score == st.userScores[sender]
        f  == Fold(s2, score, encryptedEuint32)
        s4 == Regranted(f.store, f.total, f.count, sender)
    IN  [totalRatings |-> ratingId + 1,
         userRatings |-> [st.userRatings EXCEPT ![ratedUser] = Pushed(@, ratingId)],
         userScores |-> [st.userScores EXCEPT ![sender] = Folded(score, f)],
         fhe |-> s4,
         ratingId |-> ratingId, encryptedEuint32 |-> encryptedEuint32,
         total |-> f.total, count |-> f.count]

\* the body of submitRating after its require checks, as a function of the
\* storage and the handle store: the new id, the handle of the score, the
\* fold into the rated user's UserScore and the grants
submitRatingBody(st, sender, ratedUser, plaintext) ==
    LET ratingId == st.totalRatings
        s1 == FHE_fromExternal(st.fhe, plaintext)
        encryptedEuint32 == LastHandle(s1)
        s2 == FHE_allow(FHE_allowThis(s1, encryptedEuint32), encryptedEuint32, sender)
        score == st.userScores[ratedUser]
        f  == Fold(s2, score, encryptedEuint32)
        s4 == Regranted(f.store, f.total, f.count, ratedUser)
    IN  [totalRatings |-> ratingId + 1,
         userRatings |-> [st.userRatings EXCEPT ![ratedUser] = Pushed(@, ratingId)],
         userScores |-> [st.userScores EXCEPT ![ratedUser] = Folded(score, f)],
         fhe |-> s4,
         ratingId |-> ratingId, encryptedEuint32 |-> encryptedEuint32,
         total |-> f.total, count |-> f.count]

submitRatingOk(sender, ratedUser, plaintext) ==
    LET r == submitRatingBody(Storage, sender, ratedUser, plaintext)
    IN  /\ TxBudget
        /\ totalRatings < MaxRatings
        /\ totalRatings' = r.totalRatings
        /\ ratings' = [ratings EXCEPT ![r.ratingId] =
                          [rater |-> sender,
                           encryptedScore |-> r.encryptedEuint32,
                           timestamp |-> block.timestamp]]
        /\ userRatings' = r.userRatings
        /\ userScores' = r.userScores
        /\ fhe' = r.fhe
        /\ events' = Append(events,
                         [name |-> "RatingSubmitted", ratingId |-> r.ratingId,
                          ratedUser |-> ratedUser, rater |-> sender,
                          timestamp |-> block.timestamp,
                          blockNumber |-> block.number])
        /\ lastTx' = Receipt("submitRating")
        /\ submitted' = Append(submitted,
                         [rater |-> sender, ratedUser |-> ratedUser,
                          plaintext |-> plaintext,
                          total |-> r.total, count |-> r.count,
                          at |-> Len(events) + 1])
        /\ UNCHANGED block

\* the FHE library calls one submitRating makes for this subject: FHE.add
\* only when the subject already has an aggregate
FheCallsMade(ratedUser) ==
    IF userScores[ratedUser].publicCount = 0
    THEN {"fromExternal", "allowThis", "allow", "asEuint32"}
    ELSE {"fromExternal", "allowThis", "allow", "asEuint32", "add"}

\* submitRating without the self-rating check
submitRating_NoSelfCheck(sender, ratedUser, plaintext, failing) ==
    IF ratedUser = ZeroAddress
    THEN Revert("submitRating", "Invalid user address")
    ELSE IF failing \in FheCallsMade(ratedUser)
    THEN Revert("submitRating", "FHE call reverted")
    ELSE submitRatingOk(sender, ratedUser, plaintext)

\* submitRating that keeps the id it took when a later FHE call reverts
submitRating_KeepsId(sender, ratedUser, plaintext, failing) ==
    IF ratedUser = ZeroAddress
    THEN Revert("submitRating", "Invalid user address")
    ELSE IF ratedUser = sender
    THEN Revert("submitRating", "Cannot rate yourself")
    ELSE IF failing \in FheCallsMade(ratedUser)
    THEN /\ totalRatings < MaxRatings
         /\ totalRatings' = totalRatings + 1
         /\ lastTx' = [fn |-> "submitRating", status |-> "FHE call reverted"]
         /\ UNCHANGED <<ratings, userRatings, userScores, fhe, events, block,
                        submitted>>
    ELSE submitRatingOk(sender, ratedUser, plaintext)

\* submitRating without the zero-address check
submitRating_NoZeroCheck(sender, ratedUser, plaintext, failing) ==
    IF ratedUser = sender
    THEN Revert("submitRating", "Cannot rate yourself")
    ELSE IF failing \in FheCallsMade(ratedUser)
    THEN Revert("submitRating", "FHE call reverted")
    ELSE submitRatingOk(sender, ratedUser, plaintext)

\* `failing` names the FHE library call that reverts in this transaction
\* ("none": no call does); a revert in a callee reverts the transaction
submitRating(sender, ratedUser, plaintext, failing) ==
    IF ratedUser = ZeroAddress
    THEN Revert("submitRating", "Invalid user address")
    ELSE IF ratedUser = sender
    THEN Revert("submitRating", "Cannot rate yourself")
    ELSE IF failing \in FheCallsMade(ratedUser)
    THEN Revert("submitRating", "FHE call reverted")
    ELSE submitRatingOk(sender, ratedUser, plaintext)

\* getEncryptedScore(user)
getEncryptedScore(user) ==
    <<userScores[user].encryptedTotalScore,
      userScores[user].encryptedCount,
      userScores[user].publicCount>>

----------------------------------------------------------------------------
\* authorizeViewer(viewer), msg.sender = sender

\* authorizeViewer that allows the viewer on the total handle only
authorizeViewerOk_TotalOnly(sender, viewer) ==
    LET score == userScores[sender]
        s1 == FHE_allow(fhe, score.encryptedTotalScore, viewer)
    IN  /\ TxBudget
        /\ userScores' = [userScores EXCEPT ![sender].authorizedViewers[viewer] = TRUE]
        /\ fhe' = s1
        /\ events' = Append(events,
                         ViewerAuthorized(sender, viewer))
        /\ lastTx' = Receipt("authorizeViewer")
        /\ UNCHANGED <<totalRatings, ratings, userRatings, block, submitted>>

authorizeViewerOk(sender, viewer) ==
    LET score == userScores[sender]
        s1 == FHE_allow(fhe, score.encryptedTotalScore, viewer)
        s2 == FHE_allow(s1, score.encryptedCount, viewer)
    IN  /\ TxBudget
        /\ userScores' = [userScores EXCEPT ![sender].authorizedViewers[viewer] = TRUE]
        /\ fhe' = s2
        /\ events' = Append(events,
                         ViewerAuthorized(sender, viewer))
        /\ lastTx' = Receipt("authorizeViewer")
        /\ UNCHANGED <<totalRatings, ratings, userRatings, block, submitted>>

\* authorizeViewer without the "Viewer already authorized" check
authorizeViewer_NoAlreadyCheck(sender, viewer) ==
    IF viewer = ZeroAddress
    THEN Revert("authorizeViewer", "Invalid viewer address")
    ELSE IF viewer = sender
    THEN Revert("authorizeViewer", "Cannot authorize yourself")
    ELSE IF ~(userScores[sender].publicCount > 0)
    THEN Revert("authorizeViewer", "No scores to authorize")
    ELSE authorizeViewerOk(sender, viewer)

\* authorizeViewer without the "No scores to authorize" check
authorizeViewer_NoCountCheck(sender, viewer) ==
    IF viewer = ZeroAddress
    THEN Revert("authorizeViewer", "Invalid viewer address")
    ELSE IF viewer = sender
    THEN Revert("authorizeViewer", "Cannot authorize yourself")
    ELSE IF userScores[sender].authorizedViewers[viewer]
    THEN Revert("authorizeViewer", "Viewer already authorized")
    ELSE authorizeViewerOk(sender, viewer)

\* authorizeViewer that looks at the sender's score before the viewer
authorizeViewer_CountFirst(sender, viewer) ==
    IF ~(userScores[sender].publicCount > 0)
    THEN Revert("authorizeViewer", "No scores to authorize")
    ELSE IF viewer = ZeroAddress
    THEN Revert("authorizeViewer", "Invalid viewer address")
    ELSE IF viewer = sender
    THEN Revert("authorizeViewer", "Cannot authorize yourself")
    ELSE IF userScores[sender].authorizedViewers[viewer]
    THEN Revert("authorizeViewer", "Viewer already authorized")
    ELSE authorizeViewerOk(sender, viewer)

authorizeViewer(sender, viewer) ==
    IF viewer = ZeroAddress
    THEN Revert("authorizeViewer", "Invalid viewer address")
    ELSE IF viewer = sender
    THEN Revert("authorizeViewer", "Cannot authorize yourself")
    ELSE IF ~(userScores[sender].publicCount > 0)
    THEN Revert("authorizeViewer", "No scores to authorize")
    ELSE IF userScores[sender].authorizedViewers[viewer]
    THEN Revert("authorizeViewer", "Viewer already authorized")
    ELSE authorizeViewerOk(sender, viewer)

\* revokeViewer that emits the event but leaves the flag set
revokeViewerOk_KeepsFlag(sender, viewer) ==
    /\ TxBudget
    /\ events' = Append(events,
                     ViewerRevoked(sender, viewer))
    /\ lastTx' = Receipt("revokeViewer")
    /\ UNCHANGED <<totalRatings, ratings, userRatings, userScores, fhe, block,
                   submitted>>

\* revokeViewer that clears the sender's whole viewer table
revokeViewerOk_ClearsAll(sender, viewer) ==
    /\ TxBudget
    /\ userScores' = [userScores EXCEPT
                         ![sender].authorizedViewers = [v \in Addresses |-> FALSE]]
    /\ events' = Append(events,
                     ViewerRevoked(sender, viewer))
    /\ lastTx' = Receipt("revokeViewer")
    /\ UNCHANGED <<totalRatings, ratings, userRatings, fhe, block, submitted>>

\* revokeViewer that also takes the viewer off the sender's current handles
revokeViewerOk_Retracts(sender, viewer) ==
    LET score == userScores[sender]
        s1 == [fhe EXCEPT ![score.encryptedTotalScore].allowed = @ \ {viewer}]
        s2 == [s1 EXCEPT ![score.encryptedCount].allowed = @ \ {viewer}]
    IN  /\ TxBudget
        /\ userScores' = [userScores EXCEPT ![sender].authorizedViewers[viewer] = FALSE]
        /\ fhe' = s2
        /\ events' = Append(events,
                         ViewerRevoked(sender, viewer))
        /\ lastTx' = Receipt("revokeViewer")
        /\ UNCHANGED <<totalRatings, ratings, userRatings, block, submitted>>

\* revokeViewer(viewer), msg.sender = sender
revokeViewerOk(sender, viewer) ==
    /\ TxBudget
    /\ userScores' = [userScores EXCEPT ![sender].authorizedViewers[viewer] = FALSE]
    /\ events' = Append(events,
                     ViewerRevoked(sender, viewer))
    /\ lastTx' = Receipt("revokeViewer")
    /\ UNCHANGED <<totalRatings, ratings, userRatings, fhe, block, submitted>>

revokeViewer(sender, viewer) ==
    IF ~userScores[sender].authorizedViewers[viewer]
    THEN Revert("revokeViewer", "Viewer not authorized")
    ELSE revokeViewerOk(sender, viewer)

\* isAuthorized without the self-view shortcut
isAuthorized_TableOnly(user, viewer) == userScores[user].authorizedViewers[viewer]

\* isAuthorized(user, viewer)
isAuthorized(user, viewer) ==
    IF user = viewer THEN TRUE ELSE userScores[user].authorizedViewers[viewer]

\* getUserRatings(user)
getUserRatings(user) == userRatings[user]

\* getRating without the existence check
getRating_NoExistenceCheck(ratingId) ==
    LET rating == ratings[ratingId]
    IN  [status |-> "ok", rater |-> rating.rater,
         encryptedScore |-> rating.encryptedScore,
         timestamp |-> rating.timestamp]

\* getRating(ratingId): the record, or the revert message
getRating(ratingId) ==
    LET rating == ratings[ratingId]
    IN  IF rating.rater = ZeroAddress
        THEN [status |-> "Rating does not exist"]
        ELSE [status |-> "ok", rater |-> rating.rater,
              encryptedScore |-> rating.encryptedScore,
              timestamp |-> rating.timestamp]

----------------------------------------------------------------------------
\* useTrustVault: the frontend hook, reading the contract's event log

\* contract.queryFilter(contract.filters.<name>(address)): the events of that
\* name whose indexed user is address, in the order of the log
QueryFilter(name, address) ==
    LET Matches(e) == e.name = name /\ e.user = address
    IN  SelectSeq(events, Matches)

\* new Map(): no viewer has a status
EmptyStatus == [viewer \in {} |-> [authorized |-> FALSE, blockNumber |-> 0]]

\* one of the two loops over the events of a filter: an event sets the
\* viewer's status when the viewer has none or the event's block number is
\* greater than the stored one. The addresses of the model are their own
\* lower-case form.
RECURSIVE ProcessEvents(_, _, _)
ProcessEvents(viewerStatus, evs, authorized) ==
    IF evs = <<>> THEN viewerStatus
    ELSE LET event == Head(evs)
             viewer == event.viewer
             blockNumber == event.blockNumber
             set == viewer \notin DOMAIN viewerStatus
                        \/ blockNumber > viewerStatus[viewer].blockNumber
             next == IF set
                     THEN [x \in DOMAIN viewerStatus \cup {viewer} |->
                              IF x = viewer
                              THEN [authorized |-> authorized,
                                    blockNumber |-> blockNumber]
                              ELSE viewerStatus[x]]
                     ELSE viewerStatus
         IN  ProcessEvents(next, Tail(evs), authorized)

\* fetchAuthorizedViewers() of the hook connected as address, when the
\* provider answers: the authorized events are processed first, then the
\* revoked ones, and the viewers whose status is authorized are listed
fetchAuthorizedViewers(address) ==
    LET authorizedEvents == QueryFilter("ViewerAuthorized", address)
        revokedEvents == QueryFilter("ViewerRevoked", address)
        afterAuthorized == ProcessEvents(EmptyStatus, authorizedEvents, TRUE)
        viewerStatus == ProcessEvents(afterAuthorized, revokedEvents, FALSE)
    IN  {viewer \in DOMAIN viewerStatus : viewerStatus[viewer].authorized}

----------------------------------------------------------------------------
\* The boundaries in front of submitRating: the hook's submitRating, the
\* SubmitRating form and the task:submit-rating command

\* JavaScript numbers are kept in tenths: 25 is 2.5
Tenth == 10

\* the numbers handed to the hook (0, 1, 2.5, 5, 6) and the stars clicked in
\* the form (its buttons are 1 to 5)
HookScores == {0, 10, 25, 50, 60}
FormStars == {1, 3, 5}

\* the text of the form's address field: an address or something else
FormTexts == Users \cup {ZeroAddress, "not an address"}

\* what the environment of one request is like: the wallet is connected, the
\* FHEVM instance and the wallet client exist, the chain has a contract
\* address, the encryption succeeds, the wallet signs
Sound ==
    [connected |-> TRUE, fhevm |-> TRUE, configured |-> TRUE,
     encrypts |-> TRUE, signs |-> TRUE]

\* the environments of the model: sound, or with one thing wrong
Environments ==
    {Sound,
     [Sound EXCEPT !.connected = FALSE], [Sound EXCEPT !.fhevm = FALSE],
     [Sound EXCEPT !.configured = FALSE], [Sound EXCEPT !.encrypts = FALSE],
     [Sound EXCEPT !.signs = FALSE]}

\* the toasts
HookNotReady == "FHEVM not initialized or wallet not connected"
HookNotConfigured == "Contract address not configured"
RangeError == "Rating must be between 1 and 5"
HookWaiting == "Transaction submitted. Waiting for confirmation..."
Success == "Rating submitted successfully!"
Failed == "Failed to submit rating"

\* how far the hook's submitRating(ratedUser, score) gets
HookStage(score, env) ==
    IF ~(env.fhevm /\ env.connected) THEN "notReady"
    ELSE IF ~env.configured THEN "notConfigured"
    ELSE IF score < 1 * Tenth \/ score > 5 * Tenth THEN "badScore"
    ELSE IF ~env.encrypts THEN "encryptFailed"
    ELSE IF ~env.signs THEN "rejected"
    ELSE "sent"

\* encryptEuint32(contractAddress, value) calls input.add32(value): the
\* plaintext of the ciphertext when the call succeeds (a fraction cannot be
\* an euint32: the integer part)
encryptEuint32(value) == value \div Tenth

\* the hook has called encryptEuint32
HookEncrypted(stage) == stage \in {"encryptFailed", "rejected", "sent"}

\* the hook's toasts; status is the outcome of the transaction it sent
HookToasts(stage, status) ==
    CASE stage = "notReady" -> <<HookNotReady>>
      [] stage = "notConfigured" -> <<HookNotConfigured>>
      [] stage = "badScore" -> <<RangeError>>
      [] stage \in {"encryptFailed", "rejected"} -> <<Failed>>
      [] stage = "sent" -> IF status = "ok" THEN <<HookWaiting, Success>>
                                             ELSE <<Failed>>

\* the hook leaves by return or through its own catch: it never throws
HookThrows(stage, status) == FALSE

\* the transaction of the hook, if it gets that far
hookTransaction(sender, ratedUser, score, env) ==
    IF HookStage(score, env) = "sent"
    THEN submitRating(sender, ratedUser, encryptEuint32(score), "none")
    ELSE UNCHANGED <<chain, block, lastTx, submitted>>

\* useTrustVault().submitRating(ratedUser, score) called by a component,
\* the wallet connected as sender
hookSubmitRating(sender, ratedUser, score, env) ==
    LET stage == HookStage(score, env)
    IN  /\ hookTransaction(sender, ratedUser, score, env)
        /\ ui' = [surface |-> "hook",
                  asked |-> [isNumber |-> TRUE, tenths |-> score],
                  input |-> NoForm, form |-> NoForm, formToast |-> "",
                  toasts |-> HookToasts(stage, lastTx'.status),
                  encrypted |-> HookEncrypted(stage),
                  sent |-> stage = "sent",
                  confirmed |-> stage = "sent" /\ lastTx'.status = "ok"]

\* the form does nothing but show a toast
FormRejects(fields, message) ==
    /\ ui' = [surface |-> "form",
              asked |-> [isNumber |-> TRUE, tenths |-> fields.score * Tenth],
              input |-> fields, form |-> fields, formToast |-> message,
              toasts |-> <<>>,
              encrypted |-> FALSE, sent |-> FALSE, confirmed |-> FALSE]
    /\ UNCHANGED <<chain, block, lastTx, submitted>>

\* SubmitRating.handleSubmit with the fields filled with text and stars
handleSubmit(sender, text, stars, env) ==
    LET fields == [ratedUser |-> text, score |-> stars]
        score == stars * Tenth
        stage == HookStage(score, env)
    IN  IF ~env.connected
        THEN FormRejects(fields, "Please connect your wallet first")
        ELSE IF text \notin Addresses
        THEN FormRejects(fields, "Please enter a valid Ethereum address")
        ELSE IF text = sender
        THEN FormRejects(fields, "Cannot rate yourself")
        ELSE IF stars < 1 \/ stars > 5
        THEN FormRejects(fields, RangeError)
        ELSE /\ hookTransaction(sender, text, score, env)
             /\ ui' = [surface |-> "form",
                       asked |-> [isNumber |-> TRUE, tenths |-> score],
                       input |-> fields,
                       form |-> IF HookThrows(stage, lastTx'.status)
                                THEN fields ELSE NoForm,
                       formToast |-> IF HookThrows(stage, lastTx'.status)
                                     THEN Failed ELSE Success,
                       toasts |-> HookToasts(stage, lastTx'.status),
                       encrypted |-> HookEncrypted(stage),
                       sent |-> stage = "sent",
                       confirmed |-> stage = "sent" /\ lastTx'.status = "ok"]

\* the --score arguments of the command: the text and the number it denotes
CliScores ==
    {[text |-> <<"5">>, isNumber |-> TRUE, tenths |-> 50],
     [text |-> <<"0">>, isNumber |-> TRUE, tenths |-> 0],
     [text |-> <<"6">>, isNumber |-> TRUE, tenths |-> 60],
     [text |-> <<"2", ".", "5">>, isNumber |-> TRUE, tenths |-> 25],
     [text |-> <<"4", "x">>, isNumber |-> FALSE, tenths |-> 0],
     [text |-> <<"x">>, isNumber |-> FALSE, tenths |-> 0]}

Digits == [c \in {"0", "1", "2", "3", "4", "5", "6", "7", "8", "9"} |->
              CASE c = "0" -> 0 [] c = "1" -> 1 [] c = "2" -> 2 [] c = "3" -> 3
                [] c = "4" -> 4 [] c = "5" -> 5 [] c = "6" -> 6 [] c = "7" -> 7
                [] c = "8" -> 8 [] c = "9" -> 9]

\* parseInt(text): the number the leading digits spell, whatever follows
\* them; NaN when the text does not start with a digit
RECURSIVE ParseDigits(_, _)
ParseDigits(text, acc) ==
    IF text = <<>> \/ Head(text) \notin DOMAIN Digits THEN acc
    ELSE ParseDigits(Tail(text), 10 * acc + Digits[Head(text)])

parseInt(text) ==
    IF text = <<>> \/ Head(text) \notin DOMAIN Digits
    THEN [isNaN |-> TRUE, value |-> 0]
    ELSE [isNaN |-> FALSE, value |-> ParseDigits(text, 0)]

\* the account of the command line: signers[0]
CliSigner == "alice"

\* task:submit-rating --rated-user ratedUser --score arg
taskSubmitRating(ratedUser, arg) ==
    LET score == parseInt(arg.text)
        asked == [isNumber |-> arg.isNumber, tenths |-> arg.tenths]
    IN  IF score.isNaN \/ score.value < 1 \/ score.value > 5
        THEN /\ ui' = [surface |-> "cli", asked |-> asked,
                       input |-> NoForm, form |-> NoForm, formToast |-> "",
                       toasts |-> <<>>,
                       encrypted |-> FALSE, sent |-> FALSE, confirmed |-> FALSE]
             /\ UNCHANGED <<chain, block, lastTx, submitted>>
        ELSE /\ submitRating(CliSigner, ratedUser, score.value, "none")
             /\ ui' = [surface |-> "cli", asked |-> asked,
                       input |-> NoForm, form |-> NoForm, formToast |-> "",
                       toasts |-> <<>>,
                       encrypted |-> TRUE, sent |-> TRUE,
                       confirmed |-> lastTx'.status = "ok"]

----------------------------------------------------------------------------
\* a new block is mined; block.timestamp strictly increases. Blocks are
\* mined while the timed ledger can still accept a transaction: a later block
\* would hold no log and no rating.
MineBlock ==
    /\ block.number < MaxBlocks
    /\ Len(events) < MaxTimedTx
    /\ block' = [number |-> block.number + 1, timestamp |-> block.timestamp + 1]
    /\ UNCHANGED <<chain, lastTx, submitted, ui>>

\* the transactions, sent to the contract directly
Next ==
    \/ \E sender \in Senders, ratedUser \in Addresses :
          submitRating(sender, ratedUser, RatingOf[sender], "none") /\ UNCHANGED ui
    \/ \E sender \in Senders, viewer \in Addresses :
          authorizeViewer(sender, viewer) /\ UNCHANGED ui
    \/ \E sender \in Senders, viewer \in Addresses :
          revokeViewer(sender, viewer) /\ UNCHANGED ui

Spec == Init /\ [][Next]_vars

\* the same ledger with blocks being mined between the transactions, up to
\* MaxTimedTx accepted transactions
NextBlocks ==
    \/ Next /\ Len(events') <= MaxTimedTx
    \/ MineBlock

SpecBlocks == Init /\ [][NextBlocks]_vars

\* the ledger driven through the boundaries only, up to MaxUiTx accepted
\* transactions
NextUi ==
    \/ \E sender \in Senders, ratedUser \in Users, score \in HookScores,
           env \in Environments :
          /\ hookSubmitRating(sender, ratedUser, score, env)
          /\ Len(events') <= MaxUiTx
    \/ \E sender \in Senders, text \in FormTexts, stars \in FormStars,
           env \in Environments :
          /\ handleSubmit(sender, text, stars, env)
          /\ Len(events') <= MaxUiTx
    \/ \E ratedUser \in Users, arg \in CliScores :
          /\ taskSubmitRating(ratedUser, arg)
          /\ Len(events') <= MaxUiTx

SpecUi == Init /\ [][NextUi]_vars

\* a submission in which one FHE library call reverts
submitRatingFheReverts ==
    \E sender \in Senders, ratedUser \in Addresses, failing \in FheCalls :
        submitRating(sender, ratedUser, RatingOf[sender], failing) /\ UNCHANGED ui

\* the same ledger with an FHE library whose calls may revert
NextFhe == Next \/ submitRatingFheReverts

SpecFhe == Init /\ [][NextFhe]_vars

----------------------------------------------------------------------------
\* Vocabulary of the properties

publicCount(s) == getEncryptedScore(s)[3]
totalHandle(s) == getEncryptedScore(s)[1]
countHandle(s) == getEncryptedScore(s)[2]

\* the accepted submissions whose subject is s, in order
RECURSIVE SubmittedTo(_, _)
SubmittedTo(s, n) ==
    IF n = 0 THEN <<>>
    ELSE IF submitted[n].ratedUser = s
         THEN Append(SubmittedTo(s, n - 1), submitted[n].plaintext)
         ELSE SubmittedTo(s, n - 1)

ScoresOf(s) == SubmittedTo(s, Len(submitted))

RECURSIVE SumSeq(_)
SumSeq(q) == IF q = <<>> THEN 0 ELSE q[1] + SumSeq(Tail(q))

\* the last event of the log
LastEvent == events[Len(events)]

\* this step is a successful authorizeViewer(v) sent by s
AuthorizeStep(s, v) ==
    /\ Len(events') = Len(events) + 1
    /\ LastEvent' = ViewerAuthorized(s, v)

\* this step is a successful revokeViewer(v) sent by s
RevokeStep(s, v) ==
    /\ Len(events') = Len(events) + 1
    /\ LastEvent' = ViewerRevoked(s, v)

\* this step is a successful submitRating whose subject is s
SubmitStepFor(s) ==
    /\ Len(submitted') = Len(submitted) + 1
    /\ submitted'[Len(submitted')].ratedUser = s

\* the addresses for which s has ever successfully called authorizeViewer
EverAuthorized(s) ==
    {events[i].viewer : i \in {j \in 1..Len(events) :
        events[j].name = "ViewerAuthorized" /\ events[j].user = s}}

\* the stored relation, without the self-view shortcut of isAuthorized
Active(s, v) == userScores[s].authorizedViewers[v]

----------------------------------------------------------------------------
\* C1: for every subject, publicCount equals the number of successful
\* submitRating calls whose subject it is; a successful submission raises it
\* by exactly 1 and no step of any operation lowers it.
C1_VisibleCountCounts ==
    /\ [](\A s \in Addresses : publicCount(s) = Len(ScoresOf(s)))
    /\ [][\A s \in Addresses :
            /\ publicCount(s)' >= publicCount(s)
            /\ SubmitStepFor(s) => publicCount(s)' = publicCount(s) + 1
            /\ ~SubmitStepFor(s) => publicCount(s)' = publicCount(s)]_vars

\* a subject rated twice, after a grant and a revoke of its own
C1_Witness ==
    \E s \in Users :
        /\ publicCount(s) = 2
        /\ Len(ScoresOf(s)) = 2
        /\ Len(events) > 0
        /\ LastEvent.name = "ViewerRevoked" /\ LastEvent.user = s

\* C2: with the transparent stand-in encryption, after n >= 1 accepted
\* submissions s1..sn to a subject, interleaved with anything else, the
\* total handle decrypts to s1+...+sn and the count handle to n.
C2_AggregateIsSum ==
    \A s \in Addresses :
        Len(ScoresOf(s)) >= 1 =>
            /\ Decrypt(totalHandle(s)) = SumSeq(ScoresOf(s))
            /\ Decrypt(countHandle(s)) = Len(ScoresOf(s))

\* scores 5 and 3 for one subject give total 8 and count 2, with a
\* submission to another subject in between
C2_Witness ==
    \E s \in Users :
        /\ ScoresOf(s) = <<5, 3>>
        /\ Len(submitted) = 3
        /\ submitted[2].ratedUser # s
        /\ Decrypt(totalHandle(s)) = 8
        /\ Decrypt(countHandle(s)) = 2

\* C3: submitRating with ratedUser = msg.sender always reverts with "Cannot
\* rate yourself" and changes nothing of the contract's storage, the handle
\* store or the event log.
C3_SelfRatingRejected ==
    [][\A a \in Senders, failing \in FheCalls \cup {"none"} :
          submitRating(a, a, RatingOf[a], failing) =>
              /\ lastTx'.status = "Cannot rate yourself"
              /\ UNCHANGED chain]_vars

\* a self-rating rejected in a ledger that holds ratings and a viewer
C3_Witness ==
    /\ lastTx = [fn |-> "submitRating", status |-> "Cannot rate yourself"]
    /\ totalRatings = 2
    /\ \E s, v \in Users : userScores[s].authorizedViewers[v]

\* C4: the only identities allowed on a subject's current total and count
\* handles are the contract, the subject and the viewers the subject has
\* authorized; a rater who is neither never is.
C4_OnlySubjectAndViewersDecrypt ==
    \A s \in Addresses :
        Allowed(totalHandle(s)) \cup Allowed(countHandle(s))
            \subseteq {This, s} \cup EverAuthorized(s)

\* C5: the score handle of every rating record is allowed for the contract
\* and the rating's rater only; the rated subject and its viewers never are.
C5_RatingHandlesStayPrivate ==
    \A id \in 0..(totalRatings - 1) :
        Allowed(ratings[id].encryptedScore) \subseteq {This, ratings[id].rater}

\* C6: isAuthorized(x, x) is true for every identity, whatever was submitted,
\* granted or revoked, and also when x has no aggregate.
C6_SelfViewAlways ==
    \A x \in Addresses : isAuthorized(x, x)

\* a user with an aggregate who has granted and revoked, and a user with no
\* aggregate: the table holds no entry for either, the query says TRUE
C6_Witness ==
    \E x, y \in Users :
        /\ publicCount(x) > 0 /\ EverAuthorized(x) # {}
        /\ Len(events) > 0 /\ LastEvent.name = "ViewerRevoked" /\ LastEvent.user = x
        /\ publicCount(y) = 0
        /\ ~Active(x, x) /\ ~Active(y, y)
        /\ isAuthorized(x, x) /\ isAuthorized(y, y)

\* C7: for a subject s and a viewer v other than s, a successful
\* authorizeViewer(v) by s makes isAuthorized(s, v) true, a successful
\* revokeViewer(v) by s makes it false, and no other step changes it (so it
\* stays as set until s's next successful revoke, resp. authorize, of v).
C7_GrantRevokeRoundTrip ==
    [][\A s \in Addresses : \A v \in Addresses \ {s} :
          /\ AuthorizeStep(s, v) => isAuthorized(s, v)'
          /\ RevokeStep(s, v) => ~isAuthorized(s, v)'
          /\ (~AuthorizeStep(s, v) /\ ~RevokeStep(s, v)) =>
                 (isAuthorized(s, v)' = isAuthorized(s, v))]_vars

\* a rated subject has authorized, revoked and authorized the same viewer
C7_Witness ==
    \E s \in Users : \E v \in Users \ {s} :
        /\ publicCount(s) > 0
        /\ Len(events) = 4
        /\ events[2] = ViewerAuthorized(s, v)
        /\ events[3] = ViewerRevoked(s, v)
        /\ events[4] = ViewerAuthorized(s, v)
        /\ isAuthorized(s, v)

\* C8: authorizeViewer(v) by s reverts with "Viewer already authorized"
\* whenever (s, v) is active, revokeViewer(v) by s reverts with "Viewer not
\* authorized" whenever (s, v) is not active; both leave the storage, the
\* handle store and the event log unchanged.
C8_DoubleGrantAndBareRevokeFail ==
    [][\A s \in Senders, v \in Addresses :
          /\ (Active(s, v) /\ authorizeViewer(s, v)) =>
                 /\ lastTx' = [fn |-> "authorizeViewer",
                               status |-> "Viewer already authorized"]
                 /\ UNCHANGED chain
          /\ (~Active(s, v) /\ revokeViewer(s, v)) =>
                 /\ lastTx' = [fn |-> "revokeViewer",
                               status |-> "Viewer not authorized"]
                 /\ UNCHANGED chain]_vars

\* a second grant refused while the subject has an active viewer and a
\* revoked one
C8_Witness ==
    /\ lastTx = [fn |-> "authorizeViewer", status |-> "Viewer already authorized"]
    /\ \E s \in Senders : \E v, w \in Users :
          /\ Active(s, v)
          /\ ~Active(s, w) /\ w \in EverAuthorized(s)

\* C9: authorizeViewer(v) by a subject whose publicCount is 0, for v neither
\* null nor the subject, reverts with "No scores to authorize" and (s, v)
\* stays inactive.
C9_NoAggregateNoGrant ==
    [][\A s \in Senders : \A v \in Addresses \ {s, ZeroAddress} :
          (publicCount(s) = 0 /\ authorizeViewer(s, v)) =>
              /\ lastTx' = [fn |-> "authorizeViewer",
                            status |-> "No scores to authorize"]
              /\ ~Active(s, v)'
              /\ UNCHANGED chain]_vars

\* the grant of an unrated sender refused while another user has ratings
C9_Witness ==
    /\ lastTx = [fn |-> "authorizeViewer", status |-> "No scores to authorize"]
    /\ totalRatings > 0
    /\ \E s \in Senders : publicCount(s) = 0 /\ \A v \in Addresses : ~Active(s, v)

\* C10: for every subject, publicCount is 0 exactly when both the total and
\* the count handle are the zero handle, and getEncryptedScore of a
\* never-rated subject is (zero handle, zero handle, 0).
C10_CountZeroIffNoHandles ==
    \A s \in Addresses :
        /\ (publicCount(s) = 0) <=>
               (totalHandle(s) = ZeroHandle /\ countHandle(s) = ZeroHandle)
        /\ ScoresOf(s) = <<>> =>
               getEncryptedScore(s) = <<ZeroHandle, ZeroHandle, 0>>

\* a rated subject with both handles next to a never-rated one with none
C10_Witness ==
    \E s, t \in Users :
        /\ publicCount(s) = 2
        /\ totalHandle(s) # ZeroHandle /\ countHandle(s) # ZeroHandle
        /\ ScoresOf(t) = <<>>
        /\ getEncryptedScore(t) = <<ZeroHandle, ZeroHandle, 0>>

\* C11: when an FHE library call made inside submitRating reverts, the
\* submission is rejected: no id is returned and the id counter, the rating
\* records, the per-subject index, the aggregates and the decrypt grants are
\* as before the call.
C11_FheFailureRollsBack ==
    [][\A sender \in Senders : \A ratedUser \in Users \ {sender} :
          \A failing \in FheCallsMade(ratedUser) :
              submitRating(sender, ratedUser, RatingOf[sender], failing) =>
                  /\ lastTx' = [fn |-> "submitRating",
                                status |-> "FHE call reverted"]
                  /\ UNCHANGED <<chain, submitted>>]_vars

\* a submission rejected by the FHE library in a ledger that holds ratings,
\* the next id still unassigned
C11_Witness ==
    /\ lastTx = [fn |-> "submitRating", status |-> "FHE call reverted"]
    /\ totalRatings = 2
    /\ Len(submitted) = 2
    /\ ratings[totalRatings] = EmptyRating
    /\ \E s \in Users : publicCount(s) = 2

\* the RatingSubmitted events, in order of emission
IsRatingEvent(e) == e.name = "RatingSubmitted"
RatingEvents == SelectSeq(events, IsRatingEvent)

\* C12: rating ids are assigned sequentially from 0: the k-th accepted
\* submission overall (k from 0) gets id k, so no two ratings share an id, and
\* rejected submissions consume none (the counter equals the number of
\* accepted submissions).
C12_SequentialIds ==
    /\ totalRatings = Len(submitted)
    /\ Len(RatingEvents) = Len(submitted)
    /\ \A k \in 1..Len(submitted) :
          /\ RatingEvents[k].ratingId = k - 1
          /\ RatingEvents[k].rater = submitted[k].rater
          /\ RatingEvents[k].ratedUser = submitted[k].ratedUser
          /\ ratings[k - 1].rater = submitted[k].rater
    /\ \A id \in RatingIds : id >= totalRatings => ratings[id] = EmptyRating

\* three accepted submissions of different raters and subjects hold ids
\* 0, 1, 2, and a submission has just been rejected
C12_Witness ==
    /\ lastTx.fn = "submitRating" /\ lastTx.status # "ok"
    /\ totalRatings = 3
    /\ RatingEvents[3].ratingId = 2
    /\ submitted[1].ratedUser # submitted[2].ratedUser
    /\ submitted[1].rater # submitted[3].rater

\* C13: getRating(id) reverts with "Rating does not exist" exactly when id
\* was never assigned (id >= number of accepted submissions); for an assigned
\* id it returns the rater, the score handle and the timestamp recorded at
\* submission, and no later step changes what it returns.
C13_GetRating ==
    /\ [](\A id \in RatingIds :
            IF id >= Len(submitted)
            THEN getRating(id) = [status |-> "Rating does not exist"]
            ELSE /\ getRating(id).status = "ok"
                 /\ getRating(id).rater = submitted[id + 1].rater
                 /\ Decrypt(getRating(id).encryptedScore) = submitted[id + 1].plaintext
                 /\ getRating(id).timestamp = RatingEvents[id + 1].timestamp)
    /\ [][\A id \in RatingIds :
            id < totalRatings => getRating(id)' = getRating(id)]_vars

\* two ratings recorded in different blocks, read back after a later grant
C13_Witness ==
    /\ totalRatings = 2
    /\ getRating(0).status = "ok" /\ getRating(1).status = "ok"
    /\ getRating(0).timestamp < getRating(1).timestamp
    /\ getRating(2) = [status |-> "Rating does not exist"]
    /\ Len(events) > 0
    /\ LastEvent.name = "ViewerAuthorized"

\* q is a prefix of r
IsPrefix(q, r) == Len(q) <= Len(r) /\ SubSeq(r, 1, Len(q)) = q

\* C14: getUserRatings(subject) is append-only and in insertion order: the
\* list before a step is a prefix of the list after it, an accepted
\* submission for the subject appends exactly its new id at the end, and the
\* ids of a list are strictly increasing.
C14_IndexAppendOnly ==
    /\ [](\A s \in Addresses : \A i, j \in 1..Len(getUserRatings(s)) :
            i < j => getUserRatings(s)[i] < getUserRatings(s)[j])
    /\ [][\A s \in Addresses :
            /\ IsPrefix(getUserRatings(s), getUserRatings(s)')
            /\ SubmitStepFor(s) =>
                   getUserRatings(s)' = Append(getUserRatings(s), LastEvent'.ratingId)
            /\ ~SubmitStepFor(s) => getUserRatings(s)' = getUserRatings(s)]_vars

\* a subject whose list is <<0, 2>>: id 1 went to another subject
C14_Witness ==
    \E s, t \in Users :
        /\ getUserRatings(s) = <<0, 2>>
        /\ getUserRatings(t) = <<1>>

\* C15: authorizeViewer(v) or revokeViewer(v) sent by c changes at most the
\* relation (c, v): (s, w) is unchanged for every s # c and for s = c with
\* w # v, so nobody grants or revokes a viewer of another subject.
C15_OnlyOwnRelationChanges ==
    [][\A c \in Senders, v \in Addresses :
          (authorizeViewer(c, v) \/ revokeViewer(c, v)) =>
              \A s, w \in Addresses :
                  (s # c \/ w # v) => (Active(s, w)' = Active(s, w))]_vars

\* a subject with two viewers has revoked one; the other is still active
C15_Witness ==
    \E s \in Senders : \E v, w \in Users :
        /\ v # w
        /\ lastTx = Receipt("revokeViewer")
        /\ Len(events) > 0
        /\ LastEvent = ViewerRevoked(s, v)
        /\ ~Active(s, v) /\ Active(s, w)

\* C16: submitRating with the zero address as subject reverts with "Invalid
\* user address" for every caller in every state and changes nothing; no
\* aggregate and no rating index ever exists under the zero address.
C16_NullSubjectRejected ==
    /\ [](userScores[ZeroAddress] = EmptyUserScore /\ userRatings[ZeroAddress] = <<>>)
    /\ [][\A a \in Senders, failing \in FheCalls \cup {"none"} :
            submitRating(a, ZeroAddress, RatingOf[a], failing) =>
                /\ lastTx' = [fn |-> "submitRating",
                              status |-> "Invalid user address"]
                /\ UNCHANGED <<chain, submitted>>]_vars

\* a submission for the zero address rejected in a ledger that holds ratings
C16_Witness ==
    /\ lastTx = [fn |-> "submitRating", status |-> "Invalid user address"]
    /\ totalRatings = 2
    /\ userScores[ZeroAddress] = EmptyUserScore

\* C17: authorizeViewer reverts with "Invalid viewer address" for the zero
\* address and with "Cannot authorize yourself" for the sender itself, in
\* every state, also when the sender has no aggregate; so the stored
\* relations (s, s) and (s, zero address) are never active.
C17_NullAndSelfViewerRejected ==
    /\ [](\A s \in Addresses : ~Active(s, s) /\ ~Active(s, ZeroAddress))
    /\ [][\A s \in Senders :
            /\ authorizeViewer(s, ZeroAddress) =>
                   /\ lastTx' = [fn |-> "authorizeViewer",
                                 status |-> "Invalid viewer address"]
                   /\ UNCHANGED chain
            /\ authorizeViewer(s, s) =>
                   /\ lastTx' = [fn |-> "authorizeViewer",
                                 status |-> "Cannot authorize yourself"]
                   /\ UNCHANGED chain]_vars

\* a self-authorization rejected while no sender has an aggregate
C17_Witness ==
    /\ lastTx = [fn |-> "authorizeViewer", status |-> "Cannot authorize yourself"]
    /\ \A s \in Senders : publicCount(s) = 0
    /\ totalRatings > 0

\* C18: in every reachable state, isAuthorized(s, v) for v # s implies that v
\* is allowed on s's current total and count handles (every fold re-grants
\* the currently authorized viewers).
C18_ViewersFollowTheFold ==
    \A s \in Addresses : \A v \in Addresses \ {s} :
        isAuthorized(s, v) =>
            /\ v \in Allowed(totalHandle(s))
            /\ v \in Allowed(countHandle(s))

\* C19: in every reachable state with publicCount(s) > 0, the contract and s
\* are allowed on both of s's current handles, although every fold after the
\* first produces fresh handles.
C19_LedgerAndSubjectAllowed ==
    \A s \in Addresses :
        publicCount(s) > 0 =>
            /\ {This, s} \subseteq Allowed(totalHandle(s))
            /\ {This, s} \subseteq Allowed(countHandle(s))

\* a subject rated twice: the total is a fresh handle, not a rating's own
C19_Witness ==
    \E s \in Users :
        /\ publicCount(s) = 2
        /\ \A id \in RatingIds : ratings[id].encryptedScore # totalHandle(s)
        /\ {This, s} \subseteq Allowed(totalHandle(s))
        /\ {This, s} \subseteq Allowed(countHandle(s))

\* C20: right after a successful authorizeViewer(v) by s, v is allowed on
\* both of s's handles as they are then, and the step has emitted
\* ViewerAuthorized(s, v).
C20_GrantExtendsDecrypt ==
    [][\A s \in Senders, v \in Addresses :
          (authorizeViewer(s, v) /\ lastTx'.status = "ok") =>
              /\ v \in Allowed(totalHandle(s))'
              /\ v \in Allowed(countHandle(s))'
              /\ totalHandle(s)' = totalHandle(s)
              /\ countHandle(s)' = countHandle(s)
              /\ events' = Append(events, ViewerAuthorized(s, v))]_vars

\* a subject rated twice has just authorized a viewer, who is allowed on the
\* folded (fresh) handles
C20_Witness ==
    \E s \in Senders : \E v \in Users \ {s} :
        /\ lastTx = Receipt("authorizeViewer")
        /\ Len(events) > 0
        /\ LastEvent = ViewerAuthorized(s, v)
        /\ publicCount(s) = 2
        /\ v \in Allowed(totalHandle(s))
        /\ v \in Allowed(countHandle(s))

\* C21: a successful revokeViewer(v) by s makes only the relation (s, v)
\* inactive and emits ViewerRevoked(s, v); every permission v held on any
\* handle before the step is held after it, and the aggregate handles, the
\* public counts, the rating records and the indexes are unchanged.
C21_RevokeKeepsGrants ==
    [][\A s \in Senders, v \in Addresses :
          (revokeViewer(s, v) /\ lastTx'.status = "ok") =>
              /\ ~Active(s, v)'
              /\ \A t, w \in Addresses :
                    (t # s \/ w # v) => (Active(t, w)' = Active(t, w))
              /\ RevokeStep(s, v) /\ IsPrefix(events, events')
              /\ Len(fhe') = Len(fhe)
              /\ \A h \in 1..Len(fhe) : \A a \in Addresses \cup {This} :
                    a \in Allowed(h) => a \in Allowed(h)'
              /\ \A t \in Addresses :
                    getEncryptedScore(t)' = getEncryptedScore(t)
              /\ UNCHANGED <<totalRatings, ratings, userRatings>>]_vars

\* a viewer just revoked by a subject is still allowed on the subject's
\* current total and count handles
C21_Witness ==
    \E s \in Senders : \E v \in Users \ {s} :
        /\ lastTx = Receipt("revokeViewer")
        /\ Len(events) > 0
        /\ LastEvent.name = "ViewerRevoked"
        /\ LastEvent.user = s /\ LastEvent.viewer = v
        /\ ~Active(s, v)
        /\ v \in Allowed(totalHandle(s))
        /\ v \in Allowed(countHandle(s))

\* the position in the log of the last ViewerAuthorized or ViewerRevoked
\* event of the pair (s, v); 0 when there is none
LastPairIndex(s, v) ==
    LET hits == {i \in 1..Len(events) :
                    /\ events[i].name \in {"ViewerAuthorized", "ViewerRevoked"}
                    /\ events[i].user = s /\ events[i].viewer = v}
    IN  IF hits = {} THEN 0 ELSE CHOOSE i \in hits : \A j \in hits : j <= i

\* C22: while the last grant or revoke of a pair (s, v), v # s, is a revoke,
\* v is allowed on no total or count handle that a submission for s accepted
\* after that revoke has produced, also when v is the rater of the
\* submission (the rater is allowed on the rating's score handle only).
C22_NoGrantAfterRevoke ==
    \A s \in Addresses : \A v \in Addresses \ {s} :
        LET i == LastPairIndex(s, v)
        IN  (i > 0 /\ events[i].name = "ViewerRevoked") =>
                \A k \in 1..Len(submitted) :
                    (submitted[k].ratedUser = s /\ submitted[k].at > i) =>
                        /\ v \notin Allowed(submitted[k].total)
                        /\ v \notin Allowed(submitted[k].count)

\* a revoked viewer rates the subject after the revoke: allowed on the
\* handles of before the revoke, not on those of its own submission
C22_Witness ==
    \E s \in Senders : \E v \in Users \ {s} :
        /\ Len(submitted) = 2
        /\ submitted[1].ratedUser = s /\ submitted[2].ratedUser = s
        /\ submitted[2].rater = v
        /\ LastPairIndex(s, v) > submitted[1].at
        /\ events[LastPairIndex(s, v)].name = "ViewerRevoked"
        /\ submitted[2].at > LastPairIndex(s, v)
        /\ v \in Allowed(submitted[1].total)
        /\ v \notin Allowed(totalHandle(s))
        /\ totalHandle(s) = submitted[2].total

\* C23: in every reachable state an active relation (s, v) implies
\* publicCount(s) > 0: a grant is accepted only once the subject has an
\* aggregate, and no step takes the aggregate away.
C23_ActiveImpliesAggregate ==
    \A s, v \in Addresses : Active(s, v) => publicCount(s) > 0

\* a rated subject holds an active viewer while the grant of a sender
\* without an aggregate has just been refused
C23_Witness ==
    /\ lastTx = [fn |-> "authorizeViewer", status |-> "No scores to authorize"]
    /\ \E s \in Senders : \E v \in Users :
          /\ Active(s, v)
          /\ publicCount(s) = 2
    /\ \E t \in Senders : publicCount(t) = 0

\* C24: in every state between two transactions, for every subject the
\* length of getUserRatings equals publicCount: the index and the aggregate
\* move together, whatever the order of the submissions.
C24_IndexLengthIsCount ==
    \A s \in Addresses : Len(getUserRatings(s)) = publicCount(s)

\* two subjects rated in turn, with lists of length 2 and 1
C24_Witness ==
    \E s, t \in Users :
        /\ s # t
        /\ Len(getUserRatings(s)) = 2 /\ publicCount(s) = 2
        /\ Len(getUserRatings(t)) = 1 /\ publicCount(t) = 1
        /\ submitted[2].ratedUser = t

\* the cleartext behind a handle of a given handle store
DecryptIn(store, h) == IF h = ZeroHandle THEN 0 ELSE store[h].cleartext

\* what a subject's aggregate and index amount to in a storage
PerSubject(st, x) ==
    [total |-> DecryptIn(st.fhe, st.userScores[x].encryptedTotalScore),
     count |-> DecryptIn(st.fhe, st.userScores[x].encryptedCount),
     publicCount |-> st.userScores[x].publicCount,
     ratings |-> Len(st.userRatings[x])]

\* C25: an accepted submission for subject A leaves the handles, the public
\* count, the index and the viewer table of every other subject unchanged,
\* and from every reachable state two accepted submissions for different
\* subjects give, in either order, the same total, count, public count and
\* index length for every subject.
C25_SubjectsIndependent ==
    /\ [](\A a, b \in Senders : \A A \in Users \ {a} : \A B \in Users \ {b, A} :
            LET ab == submitRatingBody(
                          submitRatingBody(Storage, a, A, RatingOf[a]),
                          b, B, RatingOf[b])
                ba == submitRatingBody(
                          submitRatingBody(Storage, b, B, RatingOf[b]),
                          a, A, RatingOf[a])
            IN  \A x \in Addresses : PerSubject(ab, x) = PerSubject(ba, x))
    /\ [][\A A \in Addresses : SubmitStepFor(A) =>
            \A B \in Addresses \ {A} :
                /\ userScores[B]' = userScores[B]
                /\ getUserRatings(B)' = getUserRatings(B)
                /\ Decrypt(totalHandle(B))' = Decrypt(totalHandle(B))
                /\ Decrypt(countHandle(B))' = Decrypt(countHandle(B))
                /\ Allowed(totalHandle(B))' = Allowed(totalHandle(B))
                /\ Allowed(countHandle(B))' = Allowed(countHandle(B))]_vars

\* a submission for one subject accepted right after one for another
\* subject that already had an aggregate and a viewer
C25_Witness ==
    \E A, B \in Users :
        /\ A # B
        /\ Len(submitted) = 3
        /\ submitted[1].ratedUser = B
        /\ submitted[2].ratedUser = B
        /\ submitted[3].ratedUser = A
        /\ submitted[3].at = Len(events)
        /\ \E v \in Users : Active(B, v)
        /\ PerSubject(Storage, B).count = 2
        /\ PerSubject(Storage, A).count = 1

\* the ViewerAuthorized and ViewerRevoked events of the pair (s, v), in order
\* of emission
PairEvents(s, v) ==
    LET OfPair(e) == /\ e.name \in {"ViewerAuthorized", "ViewerRevoked"}
                     /\ e.user = s /\ e.viewer = v
    IN  SelectSeq(events, OfPair)

\* C29: for every pair (s, v) the ViewerAuthorized and ViewerRevoked events
\* alternate, starting with ViewerAuthorized; the relation is active exactly
\* when the pair's last event is ViewerAuthorized; an accepted authorizeViewer
\* or revokeViewer appends exactly one event, its own, and a rejected one
\* appends none.
C29_EventsAlternate ==
    /\ [](\A s, v \in Addresses :
            LET q == PairEvents(s, v)
            IN  /\ \A i \in 1..Len(q) :
                      q[i].name = IF i % 2 = 1 THEN "ViewerAuthorized"
                                               ELSE "ViewerRevoked"
                /\ Active(s, v) <=>
                      (Len(q) > 0 /\ q[Len(q)].name = "ViewerAuthorized"))
    /\ [][\A s \in Senders, v \in Addresses :
            /\ authorizeViewer(s, v) =>
                   IF lastTx'.status = "ok"
                   THEN AuthorizeStep(s, v) /\ IsPrefix(events, events')
                   ELSE events' = events
            /\ revokeViewer(s, v) =>
                   IF lastTx'.status = "ok"
                   THEN RevokeStep(s, v) /\ IsPrefix(events, events')
                   ELSE events' = events]_vars

\* a pair granted, revoked and granted again; a further grant has just been
\* refused and has left no event
C29_Witness ==
    \E s \in Senders : \E v \in Users \ {s} :
        /\ Len(PairEvents(s, v)) = 3
        /\ PairEvents(s, v)[2].name = "ViewerRevoked"
        /\ Active(s, v)
        /\ lastTx = [fn |-> "authorizeViewer", status |-> "Viewer already authorized"]

\* the sum of publicCount over a set of subjects
RECURSIVE SumOfCounts(_)
SumOfCounts(S) ==
    IF S = {} THEN 0
    ELSE LET x == CHOOSE y \in S : TRUE
         IN  publicCount(x) + SumOfCounts(S \ {x})

\* the places <<subject, position>> at which an id is listed
PlacesOf(id) ==
    {p \in Addresses \X (1..MaxRatings + 1) :
        p[2] <= Len(getUserRatings(p[1])) /\ getUserRatings(p[1])[p[2]] = id}

\* C30: the per-subject lists partition the assigned ids: every id below
\* totalRatings is listed at exactly one place, no list holds an id from
\* totalRatings on, totalRatings is the sum of publicCount over all
\* subjects, and the rater recorded for an id in s's list is neither the
\* zero address nor s.
C30_IndexesPartitionIds ==
    /\ \A id \in RatingIds :
          Cardinality(PlacesOf(id)) = IF id < totalRatings THEN 1 ELSE 0
    /\ totalRatings = SumOfCounts(Addresses)
    /\ \A s \in Addresses : \A i \in 1..Len(getUserRatings(s)) :
          /\ getUserRatings(s)[i] < totalRatings
          /\ ratings[getUserRatings(s)[i]].rater \notin {ZeroAddress, s}

\* three ids spread over three subjects by two raters
C30_Witness ==
    /\ totalRatings = 3
    /\ \A s \in Users : Len(getUserRatings(s)) = 1
    /\ \A s \in Users : ratings[getUserRatings(s)[1]].rater # s

\* C27: for every subject and every history of grants and revokes, also
\* with a grant and a revoke of one viewer in the same block, the list that
\* fetchAuthorizedViewers derives from the event log is the set of viewers
\* whose relation with the subject is active in the contract.
C27_ViewerListIsRelation ==
    \A s \in Addresses :
        fetchAuthorizedViewers(s) = {v \in Addresses : Active(s, v)}

\* the request asks for an integer score from 1 to 5
InRange(asked) == asked.isNumber /\ asked.tenths \in {1 * Tenth, 2 * Tenth,
                                                     3 * Tenth, 4 * Tenth, 5 * Tenth}

\* C26: a request to the hook, the form or the command line whose score is
\* not an integer from 1 to 5 is rejected before the encryption is called
\* and before a transaction is sent, and leaves the ledger unchanged; and
\* with all submissions going through these boundaries every subject's
\* total lies between publicCount and 5 * publicCount.
C26_ScoreRangeAtBoundary ==
    /\ [](\A s \in Addresses :
            /\ publicCount(s) <= Decrypt(totalHandle(s))
            /\ Decrypt(totalHandle(s)) <= 5 * publicCount(s))
    /\ [][~InRange(ui'.asked) =>
            /\ ~ui'.encrypted
            /\ ~ui'.sent
            /\ UNCHANGED chain]_vars

\* C28: the form shows its success toast and resets its fields only when
\* the transaction was sent and confirmed; when the hook's submitRating
\* aborts, the form shows no success toast and keeps its input.
C28_SuccessOnlyWhenConfirmed ==
    ui.surface = "form" =>
        /\ ui.formToast = Success => (ui.sent /\ ui.confirmed)
        /\ ~ui.confirmed => (ui.formToast # Success /\ ui.form = ui.input)

====
